---- MODULE Spec2Model ----
(***************************************************************************)
(* Model of DcgmNs tasks (src/common/Task.hpp): NamedBasicTask, Task<T>,   *)
(* Task<void>, TaskWithAttempts, the std::promise each task may own, and   *)
(* the runner that keeps ITask handles in a queue.                         *)
(*                                                                         *)
(* A task's callable is the environment: every invocation yields, by a     *)
(* nondeterministic choice, "no value", a value, or a raised failure.      *)
(***************************************************************************)
EXTENDS Integers, Sequences, FiniteSets, TLC

VARIABLES
    tasks,      \* task id -> the object's fields and where the object lives
    shared,     \* task id -> promise index -> shared state seen by the future
    hist,       \* task id -> counts of what Run did so far (observation only)
    last,       \* the latest Run: task, outcome of the callable, result
    twin,       \* task id -> m_attempts of the same task run without a promise
    queue,      \* the runner's queue of task handles
    running,    \* the handle the drive loop has taken out of the queue, or 0
    turnLeft,   \* tasks of the current turn that were not yet run
    turn,       \* the current turn: the queue it started with, what it ran so far
    shutdown,   \* the runner was torn down
    factory     \* the factory call being compiled: return type of Fn, what it gives

vars == <<tasks, shared, hist, last, twin, queue, running, turnLeft, turn, shutdown,
          factory>>

----------------------------------------------------------------------------
(* Bounds of the model *)

NTasks == 2
MaxRuns == 3
MaxAttach == 2
MaxAttempts == 2
MaxDepth == 3

Tasks == 1..NTasks
PromiseIds == 1..MaxAttach
Values == {"v1", "v2"}
Errors == {"e1", "e2"}
Names == {"job", ""}
NoName == "<none>"
\* std::size_t(this) of each task object, as "{:#x}" prints it
AddressOf == <<"0x7f10", "0x7f40", "0x7f70", "0x7fa0", "0x7fd0">>
\* the int argument of the TaskWithAttempts constructors
AttemptArgs == {-1, 0} \cup (1..MaxAttempts)

(* What one invocation of m_func can do *)
NotReady == [k |-> "none"]
Ready(v) == [k |-> "value", v |-> v]
Raise(e) == [k |-> "raise", e |-> e]
Outcomes == {NotReady} \cup {Ready(v) : v \in Values} \cup {Raise(e) : e \in Errors}
\* Task<void> wraps func in a lambda that returns 0 after func returns
VoidOutcomes == {Ready("0")} \cup {Raise(e) : e \in Errors}
OutcomesOf(kind) == IF kind = "void" THEN VoidOutcomes ELSE Outcomes

(* Shared state of a promise/future pair *)
Unused == [k |-> "unused"]
Pending == [k |-> "pending"]
Broken == [k |-> "broken"]
Val(v) == [k |-> "value", v |-> v]
VoidVal == [k |-> "void"]
Exc(e) == [k |-> "exception", e |-> e]
Settled(s) == s.k \in {"value", "void", "exception", "broken"}

----------------------------------------------------------------------------
(* std::promise operations used by the task *)

\* stores x whether or not the shared state is ready
StoreOverwrite(sh, p, x) == [thrown |-> FALSE, shared |-> [sh EXCEPT ![p] = x]]

\* set_value / set_exception: store x when the shared state is not yet ready,
\* otherwise throw std::future_error (promise_already_satisfied)
Store(sh, p, x) ==
    IF sh[p] = Pending
    THEN [thrown |-> FALSE, shared |-> [sh EXCEPT ![p] = x]]
    ELSE [thrown |-> TRUE, shared |-> sh]

\* the promise is leaked instead of destroyed
DestroyPromiseLeak(sh, p) == sh

\* ~unique_ptr<std::promise>: a promise destroyed before it was satisfied leaves
\* broken_promise in the shared state; a null pointer destroys nothing
DestroyPromise(sh, p) ==
    IF p # 0 /\ sh[p] = Pending THEN [sh EXCEPT ![p] = Broken] ELSE sh

----------------------------------------------------------------------------
(* OptionalNestedType and the types the factories name *)

\* A type is written as the templates and qualifiers around a base type, outermost
\* first: <<"optional", "vector", "int">> is std::optional<std::vector<int>>.
BaseTypes == {"int", "string", "void"}
Wrappers == {"optional", "const", "vector"}
RECURSIVE WrappersUpTo(_)
WrappersUpTo(n) ==
    IF n = 0 THEN {<<>>}
    ELSE LET shorter == WrappersUpTo(n - 1)
         IN  shorter \cup {<<w>> \o ws : w \in Wrappers, ws \in {x \in shorter : Len(x) = n - 1}}
\* const const T is const T, and void stands alone or inside optional only
WellFormed(ty) ==
    /\ \A i \in 1..(Len(ty) - 2) : ~(ty[i] = "const" /\ ty[i + 1] = "const")
    /\ ty[Len(ty)] = "void" => \A i \in 1..(Len(ty) - 1) : ty[i] = "optional"
\* std::invoke_result_t<Fn> of the callables given to the factories
ReturnTypes ==
    {ty \in {ws \o <<b>> : ws \in WrappersUpTo(MaxDepth), b \in BaseTypes} : WellFormed(ty)}

\* strips one std::optional only
OptionalNestedTypeOnce(ty) ==
    IF Len(ty) > 1 /\ Head(ty) = "optional" THEN Tail(ty) ELSE ty

\* OptionalNestedType<T>::type: the specialization matches std::optional<T> itself
\* (not a const-qualified one) and recurs on T; the primary template gives T
RECURSIVE OptionalNestedType(_)
OptionalNestedType(ty) ==
    IF Len(ty) > 1 /\ Head(ty) = "optional" THEN OptionalNestedType(Tail(ty)) ELSE ty

\* the two pairs of factories (with and without a name the types are the same)
Helpers == {"make_task", "make_task_with_attempts"}
\* what the call compiles to: the class of the task, or "rejected" when the
\* requires-clause of make_task_with_attempts is false
Factory(helper, fn) ==
    LET T == OptionalNestedType(fn)
    IN  [helper |-> helper, fn |-> fn, type |-> T,
         built |-> IF helper = "make_task_with_attempts"
                   THEN IF T = <<"void">> THEN "rejected" ELSE "retry"
                   ELSE IF T = <<"void">> THEN "void" ELSE "plain"]

----------------------------------------------------------------------------
(* NamedBasicTask *)

\* every task gets a generated name, the taskName argument is dropped
NamedBasicTask_NameDropped(t, nameArg) == "Unknown at " \o AddressOf[t]

\* first constructor stores taskName; the second formats the object's address
NamedBasicTask_Name(t, nameArg) ==
    IF nameArg = NoName THEN "Unknown at " \o AddressOf[t] ELSE nameArg

\* the has_value() test is missing: result.value() of an empty optional throws
\* bad_optional_access, which the catch block hands to the promise
NamedBasicTask_RunNoCheck(kind, p, sh, out) ==
    IF out.k = "none"
    THEN [result |-> "Ok", invoked |-> 1,
          shared |-> IF p # 0 THEN Store(sh, p, Exc("bad_optional_access")).shared ELSE sh]
    ELSE [result |-> "Ok", invoked |-> 1,
          shared |-> IF p = 0 THEN sh
                     ELSE IF out.k = "value"
                     THEN Store(sh, p, IF kind = "void" THEN VoidVal ELSE Val(out.v)).shared
                     ELSE Store(sh, p, Exc(out.e)).shared]

\* tests m_func() and then calls it again for the value to store
NamedBasicTask_RunTwice(kind, p, sh, out) ==
    IF out.k = "none"
    THEN [result |-> "Deferred", invoked |-> 1, shared |-> sh]
    ELSE LET try == IF out.k = "raise"
                    THEN [caught |-> out.e, shared |-> sh]
                    ELSE IF p = 0
                    THEN [caught |-> "", shared |-> sh]
                    ELSE LET s == Store(sh, p, IF kind = "void" THEN VoidVal
                                                                 ELSE Val(out.v))
                         IN  [caught |-> IF s.thrown THEN "future_error" ELSE "",
                              shared |-> s.shared]
         IN  IF try.caught = "" \/ p = 0
             THEN [result |-> "Ok", invoked |-> 2, shared |-> try.shared]
             ELSE LET s == Store(try.shared, p, Exc(try.caught))
                  IN  [result |-> IF s.thrown THEN "Throw" ELSE "Ok",
                       invoked |-> 1, shared |-> s.shared]

\* the return after set_value is missing: the value is stored and Run falls
\* through to a Deferred result
NamedBasicTask_RunFallsThrough(kind, p, sh, out) ==
    IF out.k = "none"
    THEN [result |-> "Deferred", invoked |-> 1, shared |-> sh]
    ELSE LET try == IF out.k = "raise"
                    THEN [caught |-> out.e, shared |-> sh]
                    ELSE IF p = 0
                    THEN [caught |-> "", shared |-> sh]
                    ELSE LET s == Store(sh, p, IF kind = "void" THEN VoidVal
                                                                 ELSE Val(out.v))
                         IN  [caught |-> IF s.thrown THEN "future_error" ELSE "",
                              shared |-> s.shared]
         IN  IF try.caught = "" \/ p = 0
             THEN [result |-> IF out.k = "value" THEN "Deferred" ELSE "Ok",
                   invoked |-> 1, shared |-> try.shared]
             ELSE LET s == Store(try.shared, p, Exc(try.caught))
                  IN  [result |-> IF s.thrown THEN "Throw" ELSE "Ok",
                       invoked |-> 1, shared |-> s.shared]

\* Run() of NamedBasicTask<T, PromiseType>; kind = "void" is PromiseType = void.
\* result "Throw" stands for an exception leaving Run.
NamedBasicTask_Run(kind, p, sh, out) ==
    IF out.k = "none"
    THEN \* return RunResult::Deferred
         [result |-> "Deferred", invoked |-> 1, shared |-> sh]
    ELSE LET \* the try block: what it throws ("" for nothing) and the shared state
             try == IF out.k = "raise"
                    THEN [caught |-> out.e, shared |-> sh]
                    ELSE IF p = 0
                    THEN [caught |-> "", shared |-> sh]
                    ELSE LET s == Store(sh, p, IF kind = "void" THEN VoidVal
                                                                 ELSE Val(out.v))
                         IN  [caught |-> IF s.thrown THEN "future_error" ELSE "",
                              shared |-> s.shared]
         IN  IF try.caught = "" \/ p = 0
             THEN [result |-> "Ok", invoked |-> 1, shared |-> try.shared]
             ELSE \* catch (...) { m_promise->set_exception(current_exception()) }
                  LET s == Store(try.shared, p, Exc(try.caught))
                  IN  [result |-> IF s.thrown THEN "Throw" ELSE "Ok",
                       invoked |-> 1, shared |-> s.shared]

----------------------------------------------------------------------------
(* TaskWithAttempts *)

\* exhausts one not-ready result too early (--m_attempts <= 1)
TaskWithAttempts_RunEarly(att, p, sh, out) ==
    LET b == NamedBasicTask_Run("retry", p, sh, out)
    IN  IF b.result = "Deferred" /\ att - 1 <= 1
        THEN [result |-> "Ok", invoked |-> b.invoked, m_attempts |-> att - 1,
              m_promise |-> 0, shared |-> DestroyPromise(b.shared, p)]
        ELSE [result |-> b.result, invoked |-> b.invoked,
              m_attempts |-> IF b.result = "Deferred" THEN att - 1 ELSE att,
              m_promise |-> p, shared |-> b.shared]

\* tests the counter before decrementing it (m_attempts-- == 0)
TaskWithAttempts_RunLate(att, p, sh, out) ==
    LET b == NamedBasicTask_Run("retry", p, sh, out)
    IN  IF b.result = "Deferred" /\ att = 0
        THEN [result |-> "Ok", invoked |-> b.invoked, m_attempts |-> att - 1,
              m_promise |-> 0, shared |-> DestroyPromise(b.shared, p)]
        ELSE [result |-> b.result, invoked |-> b.invoked,
              m_attempts |-> IF b.result = "Deferred" THEN att - 1 ELSE att,
              m_promise |-> p, shared |-> b.shared]

\* reports Ok on exhaustion but keeps the promise
TaskWithAttempts_RunNoReset(att, p, sh, out) ==
    LET b == NamedBasicTask_Run("retry", p, sh, out)
    IN  [result |-> IF b.result = "Deferred" /\ att - 1 = 0 THEN "Ok" ELSE b.result,
         invoked |-> b.invoked,
         m_attempts |-> IF b.result = "Deferred" THEN att - 1 ELSE att,
         m_promise |-> p, shared |-> b.shared]

\* reports exhaustion with set_exception instead of releasing the promise
TaskWithAttempts_RunRejects(att, p, sh, out) ==
    LET b == NamedBasicTask_Run("retry", p, sh, out)
    IN  IF b.result = "Deferred"
        THEN IF att - 1 = 0
             THEN [result |-> "Ok", invoked |-> b.invoked, m_attempts |-> att - 1,
                   m_promise |-> p,
                   shared |-> IF p = 0 THEN b.shared
                              ELSE Store(b.shared, p, Exc("exhausted")).shared]
             ELSE [result |-> "Deferred", invoked |-> b.invoked,
                   m_attempts |-> att - 1, m_promise |-> p, shared |-> b.shared]
        ELSE [result |-> b.result, invoked |-> b.invoked, m_attempts |-> att,
              m_promise |-> p, shared |-> b.shared]

\* Run() of TaskWithAttempts<T>. m_attempts is an int; within MaxRuns
\* decrements of a constructor argument it stays far from INT_MIN.
TaskWithAttempts_Run(att, p, sh, out) ==
    LET b == NamedBasicTask_Run("retry", p, sh, out)
    IN  IF b.result = "Deferred"
        THEN IF att - 1 = 0
             THEN \* m_promise.reset(); return Ok
                  [result |-> "Ok", invoked |-> b.invoked, m_attempts |-> att - 1,
                   m_promise |-> 0, shared |-> DestroyPromise(b.shared, p)]
             ELSE [result |-> "Deferred", invoked |-> b.invoked,
                   m_attempts |-> att - 1, m_promise |-> p, shared |-> b.shared]
        ELSE [result |-> b.result, invoked |-> b.invoked, m_attempts |-> att,
              m_promise |-> p, shared |-> b.shared]

\* the virtual call ITask::Run() on a task of the given kind
ITask_Run(kind, att, p, sh, out) ==
    IF kind = "retry"
    THEN TaskWithAttempts_Run(att, p, sh, out)
    ELSE LET b == NamedBasicTask_Run(kind, p, sh, out)
         IN  [result |-> b.result, invoked |-> b.invoked, m_attempts |-> att,
              m_promise |-> p, shared |-> b.shared]

----------------------------------------------------------------------------
(* State *)

NoTask == [where |-> "unborn", kind |-> "none", m_attempts |-> 0,
           m_promise |-> 0, m_taskName |-> ""]
NoHist == [initAttempts |-> 0, nameArg |-> NoName, runs |-> 0, calls |-> 0,
           notReady |-> 0, done |-> 0]
NoTurn == [start |-> <<>>, ran |-> <<>>, calls |-> [t \in Tasks |-> 0]]
NoRun == [t |-> 0, out |-> [k |-> "unrun"], result |-> "None", twin |-> "None",
          p |-> 0]

NoFactory == [helper |-> "none", fn |-> <<>>, type |-> <<>>, built |-> "none"]
InitRunner ==
    /\ tasks = [t \in Tasks |-> NoTask]
    /\ shared = [t \in Tasks |-> [p \in PromiseIds |-> Unused]]
    /\ hist = [t \in Tasks |-> NoHist]
    /\ last = NoRun
    /\ twin = [t \in Tasks |-> 0]
    /\ queue = <<>>
    /\ running = 0
    /\ turnLeft = 0
    /\ turn = NoTurn
    /\ shutdown = FALSE
Init == InitRunner /\ factory = NoFactory

\* promises handed to task t so far
Attached(t) == Cardinality({p \in PromiseIds : shared[t][p] # Unused})
InQueue(t) == \E i \in 1..Len(queue) : queue[i] = t

\* GetName(): m_taskName.c_str(); the names of the model hold no NUL character,
\* so the C string reads as the std::string does
GetName(t) == tasks[t].m_taskName

\* Run() calls made so far, on all tasks
RECURSIVE RunsUpTo(_)
RunsUpTo(n) == IF n = 0 THEN 0 ELSE hist[n].runs + RunsUpTo(n - 1)
TotalRuns == RunsUpTo(NTasks)

\* Run() called on task t whose callable does out
RunOf(t, out) ==
    ITask_Run(tasks[t].kind, tasks[t].m_attempts, tasks[t].m_promise, shared[t], out)
\* the same call on the same task built without a promise
TwinRunOf(t, out) ==
    ITask_Run(tasks[t].kind, twin[t], 0, [p \in PromiseIds |-> Unused], out)

\* the fields and the observations of task t after Run returned r on outcome out
TaskAfter(t, r) ==
    [tasks[t] EXCEPT !.m_attempts = r.m_attempts, !.m_promise = r.m_promise]
\* the record of a task counts its first MaxRuns calls of Run(), the calls of its
\* callable in them, the not-ready outcomes and the results other than Deferred
UpTo(n, by) == IF n + by <= MaxRuns THEN n + by ELSE n
HistAfter(t, out, r) ==
    [hist[t] EXCEPT !.runs = UpTo(@, 1), !.calls = UpTo(@, r.invoked),
                    !.notReady = IF out.k = "none" THEN UpTo(@, 1) ELSE @,
                    !.done = IF r.result # "Deferred" THEN UpTo(@, 1) ELSE @]
LastAfter(t, out, r) ==
    [t |-> t, out |-> out, result |-> r.result, twin |-> TwinRunOf(t, out).result,
     p |-> tasks[t].m_promise]

----------------------------------------------------------------------------
(* Producer side *)

\* the object the constructors of Task<T>, Task<void> and TaskWithAttempts<T> build
NewTask(t, kind, nameArg, attempts) ==
    [where |-> "owned", kind |-> kind,
     m_attempts |-> IF kind = "retry" THEN attempts ELSE 0,
     m_promise |-> 0,
     m_taskName |-> NamedBasicTask_Name(t, nameArg)]

\* make_task / make_task_with_attempts: the next task object is constructed
Construct(t, kind, nameArg, attempts) ==
    /\ tasks[t].where = "unborn"
    /\ \A u \in Tasks : u < t => tasks[u].where # "unborn"
    /\ tasks' = [tasks EXCEPT ![t] = NewTask(t, kind, nameArg, attempts)]
    /\ hist' = [hist EXCEPT ![t].initAttempts = IF kind = "retry" THEN attempts ELSE 0,
                            ![t].nameArg = nameArg]
    /\ twin' = [twin EXCEPT ![t] = IF kind = "retry" THEN attempts ELSE 0]
    /\ UNCHANGED <<shared, last, queue, running, turnLeft, turn, shutdown, factory>>

\* keeps a promise that is already held and drops the new one
SetPromiseKeepsOld(t) ==
    /\ tasks[t].where = "owned"
    /\ Attached(t) < MaxAttach
    /\ LET p == Attached(t) + 1
       IN  IF tasks[t].m_promise = 0
           THEN /\ shared' = [shared EXCEPT ![t][p] = Pending]
                /\ tasks' = [tasks EXCEPT ![t].m_promise = p]
           ELSE /\ shared' = [shared EXCEPT ![t][p] = Broken]
                /\ tasks' = tasks
    /\ UNCHANGED <<hist, last, twin, queue, running, turnLeft, turn, shutdown, factory>>

\* SetPromise: a fresh promise replaces (and so destroys) the one held
SetPromise(t) ==
    /\ tasks[t].where = "owned"
    /\ Attached(t) < MaxAttach
    /\ LET p == Attached(t) + 1
       IN  /\ shared' = [shared EXCEPT ![t] =
                            [DestroyPromise(shared[t], tasks[t].m_promise)
                                EXCEPT ![p] = Pending]]
           /\ tasks' = [tasks EXCEPT ![t].m_promise = p]
    /\ UNCHANGED <<hist, last, twin, queue, running, turnLeft, turn, shutdown, factory>>

\* the owner of the handle calls Run() itself
DirectRun(t, out) ==
    /\ tasks[t].where = "owned"
    /\ TotalRuns < MaxRuns
    /\ out \in OutcomesOf(tasks[t].kind)
    /\ LET r == RunOf(t, out)
       IN  /\ tasks' = [tasks EXCEPT ![t] = TaskAfter(t, r)]
           /\ shared' = [shared EXCEPT ![t] = r.shared]
           /\ hist' = [hist EXCEPT ![t] = HistAfter(t, out, r)]
           /\ last' = LastAfter(t, out, r)
           /\ twin' = [twin EXCEPT ![t] = TwinRunOf(t, out).m_attempts]
    /\ UNCHANGED <<queue, running, turnLeft, turn, shutdown, factory>>

----------------------------------------------------------------------------
(* Runner *)

\* Enqueue: the handle moves to the back of the queue
Enqueue(t) ==
    /\ tasks[t].where = "owned"
    /\ ~shutdown
    /\ queue' = Append(queue, t)
    /\ tasks' = [tasks EXCEPT ![t].where = "runner"]
    /\ UNCHANGED <<shared, hist, last, twin, running, turnLeft, turn, shutdown, factory>>

\* a producer builds a task, attaches a promise to it or not, and enqueues it;
\* the object is private to the producer until the handle is in the queue
Submit(t, kind, nameArg, attempts, withPromise) ==
    /\ tasks[t].where = "unborn"
    /\ ~shutdown
    /\ tasks' = [tasks EXCEPT ![t] =
                    [NewTask(t, kind, nameArg, attempts)
                        EXCEPT !.where = "runner",
                               !.m_promise = IF withPromise THEN 1 ELSE 0]]
    /\ shared' = [shared EXCEPT ![t][1] = IF withPromise THEN Pending ELSE Unused]
    /\ hist' = [hist EXCEPT ![t].initAttempts = IF kind = "retry" THEN attempts ELSE 0,
                            ![t].nameArg = nameArg]
    /\ twin' = [twin EXCEPT ![t] = IF kind = "retry" THEN attempts ELSE 0]
    /\ queue' = Append(queue, t)
    /\ UNCHANGED <<last, running, turnLeft, turn, shutdown, factory>>

\* tasks that differ in nothing but their number are submitted in that order
InOrder(t) == \A u \in Tasks : u < t => tasks[u].where # "unborn"

\* a turn starts: it covers the tasks queued now
BeginTurn ==
    /\ ~shutdown
    /\ running = 0
    /\ turnLeft = 0
    /\ queue # <<>>
    /\ turnLeft' = Len(queue)
    /\ turn' = [NoTurn EXCEPT !.start = queue]
    /\ UNCHANGED <<tasks, shared, hist, last, twin, queue, running, shutdown, factory>>

\* under the queue lock the drive loop takes the front task
DriveTake ==
    /\ ~shutdown
    /\ running = 0
    /\ turnLeft > 0
    /\ running' = Head(queue)
    /\ queue' = Tail(queue)
    /\ UNCHANGED <<tasks, shared, hist, last, twin, turnLeft, turn, shutdown, factory>>

\* the model stops running tasks after MaxRuns calls of Run()
Budget == TotalRuns < MaxRuns

\* the handle goes out of scope: the task and the promise it holds are destroyed
DestroyTask(task) == [task EXCEPT !.where = "destroyed", !.m_promise = 0]

\* a deferred task goes to the front of the queue
RequeueFront(q, t) == <<t>> \o q

\* a deferred task goes behind everything queued
Requeue(q, t) == Append(q, t)

\* only a Deferred result keeps the task in the queue
KeepsTask(result) == result = "Deferred"

\* the drive loop runs the task it took, outside the queue lock, and then, under
\* the lock, puts a deferred task back or drops the handle. Run() touches only the
\* task, which no producer can reach, and Enqueue only the queue: an Enqueue
\* between the two halves gives the queue it gives just before this step.
DriveRun(out) ==
    /\ running # 0
    /\ out \in OutcomesOf(tasks[running].kind)
    /\ LET t == running
           r == RunOf(t, out)
       IN  /\ hist' = [hist EXCEPT ![t] = HistAfter(t, out, r)]
           /\ last' = LastAfter(t, out, r)
           /\ twin' = [twin EXCEPT ![t] = TwinRunOf(t, out).m_attempts]
           /\ turn' = [turn EXCEPT !.ran = Append(@, t), !.calls[t] = @ + r.invoked]
           /\ IF KeepsTask(r.result)
              THEN /\ tasks' = [tasks EXCEPT ![t] = TaskAfter(t, r)]
                   /\ shared' = [shared EXCEPT ![t] = r.shared]
                   /\ queue' = Requeue(queue, t)
              ELSE /\ tasks' = [tasks EXCEPT ![t] = DestroyTask(TaskAfter(t, r))]
                   /\ shared' = [shared EXCEPT ![t] = DestroyPromise(r.shared, r.m_promise)]
                   /\ queue' = queue
    /\ running' = 0
    /\ turnLeft' = turnLeft - 1
    /\ UNCHANGED <<shutdown, factory>>

\* teardown: the queue is cleared, which destroys every queued task
Shutdown ==
    /\ ~shutdown
    /\ running = 0
    /\ shutdown' = TRUE
    /\ queue' = <<>>
    /\ turnLeft' = 0
    /\ tasks' = [t \in Tasks |-> IF InQueue(t) THEN DestroyTask(tasks[t]) ELSE tasks[t]]
    /\ shared' = [t \in Tasks |-> IF InQueue(t)
                                  THEN DestroyPromise(shared[t], tasks[t].m_promise)
                                  ELSE shared[t]]
    /\ UNCHANGED <<hist, last, twin, running, turn, factory>>

----------------------------------------------------------------------------
(* One task object through its whole interface and through the runner *)

ConstructArgs ==
    {a \in {"plain", "void", "retry"} \X (Names \cup {NoName}) \X AttemptArgs :
        a[1] # "retry" => a[3] = 0}

NextTask ==
    \/ \E a \in ConstructArgs : Construct(1, a[1], a[2], a[3])
    \/ SetPromise(1)
    \/ \E out \in Outcomes \cup VoidOutcomes : DirectRun(1, out)
    \/ Enqueue(1)
    \/ BeginTurn
    \/ Budget /\ DriveTake
    \/ \E out \in Outcomes \cup VoidOutcomes : DriveRun(out)
    \/ Shutdown

SpecTask == Init /\ [][NextTask]_vars

TypeOK ==
    /\ \A t \in Tasks :
          /\ tasks[t].where \in {"unborn", "owned", "runner", "destroyed"}
          /\ tasks[t].m_promise \in 0..MaxAttach
          /\ hist[t].runs \in 0..MaxRuns
          /\ hist[t].calls = hist[t].runs
    /\ running \in 0..NTasks
    /\ turnLeft \in 0..NTasks

----------------------------------------------------------------------------
(* Producers submitting tasks to one runner *)

\* the factories are called without a name here, and 0 stands for the
\* non-positive attempts
SubmitArgs == {a \in ConstructArgs : a[2] = NoName /\ a[3] >= 0}
\* what the callables of submitted tasks do: one error stands for all
RunnerOutcomes == {o \in Outcomes \cup VoidOutcomes : o.k = "raise" => o.e = "e1"}

Next ==
    \/ \E t \in Tasks, a \in SubmitArgs, withPromise \in BOOLEAN :
          InOrder(t) /\ Submit(t, a[1], a[2], a[3], withPromise)
    \/ BeginTurn
    \/ Budget /\ DriveTake
    \/ \E out \in RunnerOutcomes : DriveRun(out)
    \/ Shutdown

Spec == Init /\ [][Next]_vars

----------------------------------------------------------------------------
(* A runner that keeps taking turns *)

\* plain tasks and retry tasks with attempts >= 1, each with a promise, with one
\* value and one error
FairArgs == {a \in SubmitArgs : a[1] # "void" /\ (a[1] = "retry" => a[3] >= 1)}
FairOutcomes == {NotReady, Ready("v1"), Raise("e1")}

NextFair ==
    \/ \E t \in Tasks, a \in FairArgs : InOrder(t) /\ Submit(t, a[1], a[2], a[3], TRUE)
    \/ BeginTurn
    \/ DriveTake
    \/ \E out \in FairOutcomes : DriveRun(out)
    \/ Shutdown

\* the drive loop is a thread of its own: a turn that can start starts, a task
\* that can be taken is taken, and a Run() that was called returns
SpecFair ==
    /\ Init
    /\ [][NextFair]_vars
    /\ WF_vars(BeginTurn)
    /\ WF_vars(DriveTake)
    /\ WF_vars(\E out \in FairOutcomes : DriveRun(out))

----------------------------------------------------------------------------
(* Always-ready tasks enqueued in any order, then one turn *)

\* plain and retry tasks, each with a promise
OrderArgs == {a \in SubmitArgs : a[1] # "void"}
\* the value that the callable of task t yields, on every invocation
OrderValue(t) == IF t % 2 = 1 THEN "v1" ELSE "v2"

NextOrder ==
    \/ \E t \in Tasks, a \in OrderArgs :
          turn = NoTurn /\ Submit(t, a[1], a[2], a[3], TRUE)
    \/ turn = NoTurn /\ BeginTurn
    \/ DriveTake
    \/ running # 0 /\ DriveRun(Ready(OrderValue(running)))

SpecOrder == Init /\ [][NextOrder]_vars

----------------------------------------------------------------------------
(* The factories applied to callables of every return type *)

\* a call of a factory with a callable of some return type is written
InitTypes ==
    /\ InitRunner
    /\ factory \in {[NoFactory EXCEPT !.helper = h, !.fn = ty] :
                        h \in Helpers, ty \in ReturnTypes}

\* the call is compiled
Instantiate ==
    /\ factory.built = "none"
    /\ factory' = Factory(factory.helper, factory.fn)
    /\ UNCHANGED <<tasks, shared, hist, last, twin, queue, running, turnLeft, turn,
                   shutdown>>

NextTypes == Instantiate

SpecTypes == InitTypes /\ [][NextTypes]_vars

----------------------------------------------------------------------------
(* Properties *)

\* this step is a Run() of task t
RanNow(t) == hist'[t].runs = hist[t].runs + 1
\* task t is in the runner's queue after the step
QueuedAfter(t) == \E i \in 1..Len(queue') : queue'[i] = t
\* a Run() by the drive loop that ended the task: the task left the queue for good
LeftQueue(t) ==
    tasks[t].where = "runner" =>
        tasks'[t].where = "destroyed" /\ ~QueuedAfter(t) /\ running' # t
\* a Run() by the drive loop that deferred the task: it is queued again
StaysQueued(t) ==
    tasks[t].where = "runner" =>
        tasks'[t].where = "runner" /\ QueuedAfter(t) /\ queue'[Len(queue')] = t
\* task t was built with attempts = N >= 1 and its callable was not ready so far
OnlyNotReadySoFar(t) ==
    /\ tasks[t].kind = "retry"
    /\ hist[t].initAttempts >= 1
    /\ hist[t].notReady = hist[t].runs

\* C1: a bounded-retry task built with attempts = N >= 1 whose callable is not
\* ready on invocations 1..N-1 and yields v on invocation N: Run returns Deferred
\* on invocations 1..N-1 (the task stays queued) and Ok on invocation N, when the
\* attached future holds exactly v and the task has left the queue.
C1_RetryResolvesOnNth ==
    [][\A t \in Tasks :
        (RanNow(t) /\ OnlyNotReadySoFar(t)) =>
            /\ (last'.out.k = "none" /\ hist'[t].runs < hist[t].initAttempts) =>
                  last'.result = "Deferred" /\ StaysQueued(t)
            /\ (last'.out.k = "value" /\ hist'[t].runs = hist[t].initAttempts) =>
                  /\ last'.result = "Ok"
                  /\ tasks[t].m_promise # 0 =>
                        shared'[t][tasks[t].m_promise] = Val(last'.out.v)
                  /\ LeftQueue(t)]_vars

C1_Witness ==
    \E t \in Tasks :
        /\ tasks[t].kind = "retry" /\ hist[t].initAttempts >= 2
        /\ hist[t].runs = hist[t].initAttempts
        /\ hist[t].notReady = hist[t].runs - 1
        /\ last.t = t /\ last.out.k = "value" /\ last.p # 0
        /\ shared[t][last.p] = Val(last.out.v)
        /\ tasks[t].where = "destroyed"

\* C2: a bounded-retry task built with attempts = N >= 1 whose callable is never
\* ready: the attached future is still pending after each of the first N-1
\* not-ready results, and the N-th one breaks the promise, returns Ok and takes
\* the task out of the queue.
C2_RetryRejectsAfterN ==
    [][\A t \in Tasks :
        (RanNow(t) /\ OnlyNotReadySoFar(t) /\ last'.out.k = "none") =>
            /\ hist'[t].runs < hist[t].initAttempts =>
                  /\ last'.result = "Deferred"
                  /\ tasks'[t].m_promise = tasks[t].m_promise
                  /\ tasks[t].m_promise # 0 =>
                        shared'[t][tasks[t].m_promise] = Pending
                  /\ StaysQueued(t)
            /\ hist'[t].runs = hist[t].initAttempts =>
                  /\ last'.result = "Ok"
                  /\ tasks'[t].m_promise = 0
                  /\ tasks[t].m_promise # 0 =>
                        shared'[t][tasks[t].m_promise] = Broken
                  /\ LeftQueue(t)]_vars

C2_Witness ==
    \E t \in Tasks :
        /\ tasks[t].kind = "retry" /\ hist[t].initAttempts >= 2
        /\ hist[t].runs = hist[t].initAttempts
        /\ hist[t].notReady = hist[t].runs
        /\ last.t = t /\ last.result = "Ok" /\ last.p # 0
        /\ shared[t][last.p] = Broken
        /\ tasks[t].where = "destroyed"

\* C3: a bounded-retry task built with attempts <= 0 exhausts on its first
\* not-ready result: that Run returns Ok, the promise is released (future
\* broken) and the task is not requeued.
C3_NonPositiveExhaustsAtOnce ==
    [][\A t \in Tasks :
        (/\ RanNow(t)
         /\ tasks[t].kind = "retry" /\ hist[t].initAttempts <= 0
         /\ hist[t].notReady = 0 /\ last'.out.k = "none") =>
            /\ last'.result = "Ok"
            /\ tasks'[t].m_promise = 0
            /\ tasks[t].m_promise # 0 => shared'[t][tasks[t].m_promise] = Broken
            /\ LeftQueue(t)]_vars

\* C4: Run never lets a failure reach its caller, whatever the state of the
\* task and of its promise: it returns Ok or Deferred, and when the callable
\* raises it returns Ok with the attached promise rejected by that failure.
C4_RunNeverThrows ==
    [][\A t \in Tasks :
        RanNow(t) =>
            /\ last'.result \in {"Ok", "Deferred"}
            /\ last'.out.k = "raise" =>
                  /\ last'.result = "Ok"
                  /\ tasks[t].m_promise # 0 =>
                        shared'[t][tasks[t].m_promise] = Exc(last'.out.e)]_vars

\* C5: when the callable yields a value, Run of a plain task returns Ok with
\* the attached promise resolved by exactly that value (the void value for
\* Task<void>), and the callable was invoked once.
C5_ValueResolves ==
    [][\A t \in Tasks :
        (RanNow(t) /\ tasks[t].kind \in {"plain", "void"} /\ last'.out.k = "value") =>
            /\ last'.result = "Ok"
            /\ tasks[t].m_promise # 0 =>
                  shared'[t][tasks[t].m_promise] =
                     IF tasks[t].kind = "void" THEN VoidVal ELSE Val(last'.out.v)
            /\ hist'[t].calls = hist[t].calls + 1]_vars

\* C6: when the callable is not ready, Run of a plain task returns Deferred and
\* changes nothing of the task: the promise stays attached with its future as it
\* was (pending), the name is the same, and a queued task is queued again.
C6_NotReadyLeavesTask ==
    [][\A t \in Tasks :
        (RanNow(t) /\ tasks[t].kind = "plain" /\ last'.out.k = "none") =>
            /\ last'.result = "Deferred"
            /\ tasks'[t].m_promise = tasks[t].m_promise
            /\ shared'[t] = shared[t]
            /\ tasks'[t].m_taskName = tasks[t].m_taskName
            /\ StaysQueued(t)]_vars

C6_Witness ==
    /\ last.t # 0 /\ last.out.k = "none"
    /\ tasks[last.t].kind = "plain"
    /\ tasks[last.t].m_promise # 0
    /\ shared[last.t][tasks[last.t].m_promise] = Pending
    /\ InQueue(last.t)

\* C7: whenever Run returns Ok on a task that holds a promise, the future of
\* that promise is settled (value, failure or broken promise); and no task that
\* was destroyed leaves a future pending.
C7_OkSettlesFuture ==
    [][\A t \in Tasks :
        /\ (RanNow(t) /\ last'.result = "Ok" /\ tasks[t].m_promise # 0) =>
               Settled(shared'[t][tasks[t].m_promise])
        /\ tasks'[t].where = "destroyed" =>
               \A p \in PromiseIds : shared'[t][p] # Pending]_vars

C7_Witness ==
    /\ last.t # 0 /\ last.result = "Ok" /\ last.p # 0
    /\ tasks[last.t].kind = "retry"
    /\ tasks[last.t].where = "owned"
    /\ shared[last.t][last.p] = Broken

\* C8: the m_attempts counter of a bounded-retry task is never negative, never
\* increases, goes down by exactly one on each not-ready result and is left
\* alone by a Run whose callable yields a value or raises.
C8_AttemptsCounter ==
    [][\A t \in Tasks :
        tasks'[t].kind = "retry" =>
            /\ tasks'[t].m_attempts >= 0
            /\ tasks[t].kind = "retry" => tasks'[t].m_attempts <= tasks[t].m_attempts
            /\ (RanNow(t) /\ last'.out.k = "none") =>
                  tasks'[t].m_attempts = tasks[t].m_attempts - 1
            /\ (RanNow(t) /\ last'.out.k # "none") =>
                  tasks'[t].m_attempts = tasks[t].m_attempts]_vars

\* C9: a task with a promise and the same task without one, given the same
\* outcomes of the callable, return the same result from every Run.
C9_PromiseDoesNotChangeResult == last.result = last.twin

\* C10: shutting the runner down with K tasks queued, each holding a pending
\* promise, breaks exactly those K promises (no other future changes) and
\* empties the queue; once shut down, no task that was queued has a pending future.
C10_ShutdownRejectsQueued ==
    [][/\ (shutdown' /\ ~shutdown) =>
             /\ queue' = <<>>
             /\ \A t \in Tasks, p \in PromiseIds :
                   IF InQueue(t) /\ tasks[t].m_promise = p /\ shared[t][p] = Pending
                   THEN shared'[t][p] = Broken
                   ELSE shared'[t][p] = shared[t][p]
       /\ shutdown' =>
             /\ queue' = <<>>
             /\ \A t \in Tasks :
                   tasks'[t].where \in {"runner", "destroyed"} =>
                      \A p \in PromiseIds : shared'[t][p] # Pending]_vars

C10_Witness ==
    /\ shutdown
    /\ Cardinality({t \in Tasks :
                       /\ tasks[t].kind = "plain"
                       /\ tasks[t].where = "destroyed"
                       /\ hist[t].runs >= 1
                       /\ hist[t].notReady = hist[t].runs
                       /\ shared[t][1] = Broken}) >= 2


\* position of task t in the queue, 0 when it is not there
PosInQueue(t) ==
    IF InQueue(t) THEN CHOOSE i \in 1..Len(queue) : queue[i] = t ELSE 0
\* how many tasks of the current turn still sit at the front of the queue
NotYetRun == turnLeft - (IF running # 0 THEN 1 ELSE 0)
\* task t was run in the current turn
RanThisTurn(t) == \E i \in 1..Len(turn.ran) : turn.ran[i] = t

\* C11: in one turn of the drive loop every task that was queued when the turn
\* started has Run called once, in queue order, and none twice; the tasks not yet
\* run stay at the front in their insertion order; a task whose Run returned
\* Deferred sits behind them, the deferred ones in the order they ran; a task
\* whose Run returned anything else is gone from the queue.
C11_TurnRunsEachOnce ==
    ~shutdown =>
        /\ Len(turn.ran) + turnLeft = Len(turn.start)
        /\ \A i \in 1..Len(turn.ran) : turn.ran[i] = turn.start[i]
        /\ \A i, j \in 1..Len(turn.start) : i # j => turn.start[i] # turn.start[j]
        /\ running # 0 => running = turn.start[Len(turn.ran) + 1]
        /\ NotYetRun <= Len(queue)
        /\ \A i \in 1..NotYetRun :
              queue[i] = turn.start[Len(turn.start) - NotYetRun + i]
        /\ \A i \in 1..Len(turn.ran) :
              IF tasks[turn.ran[i]].where = "runner"
              THEN /\ PosInQueue(turn.ran[i]) > NotYetRun
                   /\ \A j \in 1..Len(turn.ran) :
                         (i < j /\ tasks[turn.ran[j]].where = "runner") =>
                             PosInQueue(turn.ran[i]) < PosInQueue(turn.ran[j])
              ELSE /\ tasks[turn.ran[i]].where = "destroyed"
                   /\ ~InQueue(turn.ran[i])
\* a turn of two tasks is over: the first was deferred and is queued again, the
\* second is gone
C11_Witness ==
    /\ ~shutdown
    /\ Len(turn.start) = 2
    /\ turn.ran = turn.start
    /\ turnLeft = 0
    /\ tasks[turn.ran[1]].where = "runner"
    /\ InQueue(turn.ran[1])
    /\ tasks[turn.ran[2]].where = "destroyed"
    /\ hist[turn.ran[1]].runs = 1

\* C12: with producers enqueueing while the drive loop is anywhere in a turn, a
\* task is lost from the queue only by a Run that did not defer it or by
\* shutdown; every task the runner holds is in the queue or being run, never
\* both and never twice; and in a turn the callable of each task that was queued
\* at its start is invoked once, of every other task not at all.
C12_ConcurrentEnqueue ==
    /\ [](\A t \in Tasks :
            /\ tasks[t].where = "runner" <=> (InQueue(t) \/ running = t)
            /\ ~(InQueue(t) /\ running = t)
            /\ turn.calls[t] = IF RanThisTurn(t) THEN 1 ELSE 0
            /\ RanThisTurn(t) => \E i \in 1..Len(turn.start) : turn.start[i] = t)
    /\ [](\A i, j \in 1..Len(queue) : i # j => queue[i] # queue[j])
    /\ []((turnLeft = 0 /\ ~shutdown) =>
            \A i \in 1..Len(turn.start) : turn.calls[turn.start[i]] = 1)
    /\ [][\A t \in Tasks :
            (tasks[t].where = "runner" /\ tasks'[t].where # "runner") =>
                \/ shutdown'
                \/ RanNow(t) /\ last'.t = t /\ last'.result # "Deferred"]_vars
\* task 2 was enqueued during the turn that ran task 1: it waits behind nothing,
\* task 1 was deferred and put back behind it
C12_Witness ==
    /\ queue = <<2, 1>>
    /\ turn.start = <<1>>
    /\ turn.ran = <<1>>
    /\ turn.calls[1] = 1
    /\ turn.calls[2] = 0
    /\ turnLeft = 0

\* task t has come to an end: a Run of it returned something other than
\* Deferred, or its callable yielded a value or raised, or it was built with
\* attempts = N >= 1 and its callable was not ready N times, or the runner has
\* shut down
Ended(t) ==
    \/ hist[t].done > 0
    \/ hist[t].notReady < hist[t].runs
    \/ /\ tasks[t].kind = "retry"
       /\ hist[t].initAttempts >= 1
       /\ hist[t].notReady >= hist[t].initAttempts
    \/ shutdown

\* C13: the queue never holds a task twice, and an end is final: once a Run of a
\* task has returned Ok (its callable yielded a value, raised, or used up its
\* attempts), or the runner has shut down, the task is not in the queue, is not
\* being run, and its callable is not invoked again.
C13_TerminalIsFinal ==
    /\ [](\A i, j \in 1..Len(queue) : i # j => queue[i] # queue[j])
    /\ [](\A t \in Tasks : Ended(t) => ~InQueue(t) /\ running # t)
    /\ [][\A t \in Tasks :
            Ended(t) =>
                /\ hist'[t].calls = hist[t].calls
                /\ hist'[t].runs = hist[t].runs
                /\ ~QueuedAfter(t)]_vars
\* a retry task was run to exhaustion and another task to a value, and the
\* runner has taken a later turn over a task that is still queued
C13_Witness ==
    /\ \E t \in Tasks :
          /\ tasks[t].kind = "retry"
          /\ hist[t].done = 1
          /\ hist[t].notReady = hist[t].runs
          /\ ~InQueue(t)
          /\ ~RanThisTurn(t)
    /\ Len(turn.ran) > 0
    /\ ~shutdown

ExhaustedNow(t) ==
    /\ RanNow(t)
    /\ last'.t = t
    /\ tasks[t].kind = "retry"
    /\ last'.out.k = "none"
    /\ last'.result = "Ok"
\* the callable of task t raised in the Run of this step
RaisedNow(t) == RanNow(t) /\ last'.t = t /\ last'.out.k = "raise"

\* C15: exhaustion and failure are told apart at the future: the Run that uses up
\* the attempts of a retry task leaves broken_promise in its future, never a
\* failure; a Run whose callable raises e leaves the failure e in the future,
\* never broken_promise; and neither outcome changes afterwards, whatever the
\* runner does with the task.
C15_ExhaustionIsNotFailure ==
    [][\A t \in Tasks :
          /\ (ExhaustedNow(t) /\ last'.p # 0) => shared'[t][last'.p] = Broken
          /\ (RaisedNow(t) /\ last'.p # 0) => shared'[t][last'.p] = Exc(last'.out.e)
          /\ \A p \in PromiseIds :
                shared[t][p].k \in {"broken", "exception"} =>
                    shared'[t][p] = shared[t][p]]_vars
\* both ends are there: one retry task with a future used up its attempts, the
\* callable of another task with a future raised
C15_Witness ==
    \E t, u \in Tasks :
        /\ tasks[t].kind = "retry"
        /\ hist[t].initAttempts >= 1
        /\ hist[t].notReady = hist[t].initAttempts
        /\ shared[t][1] = Broken
        /\ ~shutdown
        /\ hist[u].notReady < hist[u].runs
        /\ shared[u][1].k = "exception"

\* task t is a retry task built with attempts = N >= 1
BoundedRetry(t) == tasks[t].kind = "retry" /\ hist[t].initAttempts >= 1
\* task t has left the runner and its future, if it has one, holds an outcome
GoneAndSettled(t) ==
    /\ tasks[t].where = "destroyed"
    /\ ~InQueue(t)
    /\ running # t
    /\ shared[t][1] # Unused => Settled(shared[t][1])

\* C16: a retry task built with attempts = N >= 1 invokes its callable at most N
\* times and returns Deferred at most N-1 times; so, with a runner that keeps
\* taking turns, every queued retry task leaves the queue in the end, its future
\* settled, whatever its callable and the callables of the other tasks return.
C16_RetryTerminates ==
    /\ [](\A t \in Tasks :
            BoundedRetry(t) =>
                /\ hist[t].calls <= hist[t].initAttempts
                /\ hist[t].runs - hist[t].done <= hist[t].initAttempts - 1)
    /\ \A t \in Tasks : (BoundedRetry(t) /\ InQueue(t)) ~> GoneAndSettled(t)
\* a retry task with a future was run as often as it had attempts, its callable
\* never ready, next to a plain task that is still not ready; no shutdown
C16_Witness ==
    \E t, u \in Tasks :
        /\ BoundedRetry(t)
        /\ hist[t].initAttempts = MaxAttempts
        /\ hist[t].calls = MaxAttempts
        /\ hist[t].notReady = MaxAttempts
        /\ shared[t][1] = Broken
        /\ GoneAndSettled(t)
        /\ tasks[u].kind = "plain"
        /\ InQueue(u)
        /\ hist[u].runs >= 1
        /\ ~shutdown

\* the drive loop runs task t in this step
DriveRunOf(t) == running = t /\ running' = 0
\* the drive loop runs task t and its callable yields a value
ReadyRun(t) == running = t /\ \E out \in FairOutcomes : out.k = "value" /\ DriveRun(out)
\* task t has left the runner, its future resolved with a value unless its
\* callable raised, its attempts ran out or the runner shut down first
GoneAndResolved(t) ==
    /\ GoneAndSettled(t)
    /\ \/ shared[t][1].k = "value"
       \/ shared[t][1].k = "exception"
       \/ shared[t][1] = Broken /\ (shutdown \/ BoundedRetry(t))

\* C17: no head-of-line blocking. A plain task stays in the runner after every
\* Run in which its callable is not ready, and leaves it only by a Run in which
\* the callable is ready or raises, or by shutdown; and, with a runner that keeps
\* taking turns, every queued task whose callable yields a value after finitely
\* many invocations is run to the end, its future resolved, and removed,
\* whatever never-ready tasks are queued before or behind it.
C17_NoHeadOfLineBlocking ==
    /\ [][\A t \in Tasks :
            /\ (DriveRunOf(t) /\ tasks[t].kind = "plain" /\ last'.out.k = "none") =>
                  /\ tasks'[t].where = "runner"
                  /\ QueuedAfter(t)
                  /\ shared'[t] = shared[t]
            /\ (tasks[t].kind = "plain" /\ tasks[t].where = "runner"
                    /\ tasks'[t].where # "runner") =>
                  shutdown' \/ (DriveRunOf(t) /\ last'.out.k # "none")]_vars
    /\ \A t \in Tasks : SF_vars(ReadyRun(t)) => (InQueue(t) ~> GoneAndResolved(t))
\* a plain task that was not ready in MaxRuns runs is still queued, and a task
\* submitted behind it has been run to a value and is gone
C17_Witness ==
    /\ tasks[1].kind = "plain"
    /\ hist[1].notReady = MaxRuns
    /\ InQueue(1)
    /\ shared[1][1] = Pending
    /\ hist[2].runs >= 2
    /\ shared[2][1].k = "value"
    /\ GoneAndResolved(2)
    /\ ~shutdown

\* the tasks that were enqueued
Enqueued == {t \in Tasks : tasks[t].where # "unborn"}

\* C18: M always-ready tasks, each with a value of its own, are enqueued in any
\* order and one turn is driven: when the turn is over the queue is empty, every
\* callable was invoked once and every one of the M futures holds the value of
\* its own task; nothing of that state depends on the order of insertion.
C18_OrderIndependent ==
    (turn # NoTurn /\ turnLeft = 0 /\ running = 0) =>
        /\ queue = <<>>
        /\ Len(turn.start) = Cardinality(Enqueued)
        /\ \A t \in Enqueued :
              /\ tasks[t].where = "destroyed"
              /\ hist[t].calls = 1
              /\ shared[t] = [p \in PromiseIds |->
                                IF p = 1 THEN Val(OrderValue(t)) ELSE Unused]
\* the turn is over for every task of the model, enqueued highest number first
C18_Witness ==
    /\ Len(turn.start) = NTasks
    /\ \A i \in 1..NTasks : turn.start[i] = NTasks + 1 - i
    /\ turnLeft = 0
    /\ running = 0
    /\ \A t \in Tasks : shared[t][1] = Val(OrderValue(t))

\* C19: GetName of a task built with a name, empty or not, is that name; GetName
\* of a task built without one is a generated name, "Unknown at " and the address
\* of the object, which is not empty; and no step (Run, SetPromise, Enqueue, the
\* drive loop) changes what GetName of a live task returns.
C19_NameIsStable ==
    /\ [](\A t \in Tasks :
            tasks[t].where # "unborn" =>
                IF hist[t].nameArg # NoName
                THEN GetName(t) = hist[t].nameArg
                ELSE GetName(t) # "" /\ GetName(t) = "Unknown at " \o AddressOf[t])
    /\ [][\A t \in Tasks :
            tasks[t].where \in {"owned", "runner"} => GetName(t)' = GetName(t)]_vars
\* a task named "job" was run twice and was given two promises
C19_Witness ==
    /\ hist[1].nameArg = "job"
    /\ GetName(1) = "job"
    /\ hist[1].runs >= 2
    /\ Attached(1) = 2
    /\ tasks[1].where = "owned"

\* promise p of task t comes into being in this step: SetPromise was called
AttachedNow(t, p) == shared[t][p] = Unused /\ shared'[t][p] # Unused

\* C20: SetPromise replaces the promise held. The new promise is the one the
\* task holds and is pending, whatever Runs came before; the promise it replaces
\* is broken if it was pending and keeps its outcome otherwise; a promise the
\* task does not hold is changed by no later step, so it never comes to hold a
\* value; and a pending promise is settled only by a Run while the task holds
\* it, by being replaced, or by the end of the task.
C20_SetPromiseReplaces ==
    [][\A t \in Tasks : \A p \in PromiseIds :
          /\ AttachedNow(t, p) =>
                /\ tasks'[t].m_promise = p
                /\ shared'[t][p] = Pending
                /\ \A o \in PromiseIds \ {p} :
                      shared'[t][o] = IF o = tasks[t].m_promise /\ shared[t][o] = Pending
                                      THEN Broken
                                      ELSE shared[t][o]
          /\ (shared[t][p] # Unused /\ tasks[t].m_promise # p) =>
                shared'[t][p] = shared[t][p]
          /\ (shared[t][p] = Pending /\ shared'[t][p] # Pending) =>
                /\ tasks[t].m_promise = p
                /\ \/ RanNow(t)
                   \/ tasks'[t].m_promise # p /\ shared'[t][p] = Broken
                   \/ tasks'[t].where = "destroyed" /\ shared'[t][p] = Broken]_vars
\* a first promise was replaced while pending and is broken; the second one was
\* attached after a Run and was resolved by a later Run
C20_Witness ==
    /\ shared[1][1] = Broken
    /\ shared[1][2].k = "value"
    /\ tasks[1].m_promise = 2
    /\ hist[1].runs >= 2
    /\ tasks[1].where = "owned"

\* C21: a Task<void> never returns Deferred: every Run of it invokes the callable
\* once and returns Ok, with the attached promise resolved (void) when the
\* callable returned and rejected by the failure when it raised; a queued task
\* leaves the queue by the first Run.
C21_VoidNeverDefers ==
    [][\A t \in Tasks :
        (RanNow(t) /\ last'.t = t /\ tasks[t].kind = "void") =>
            /\ last'.result = "Ok"
            /\ hist'[t].calls = hist[t].calls + 1
            /\ tasks[t].m_promise # 0 =>
                  shared'[t][tasks[t].m_promise] =
                     IF last'.out.k = "value" THEN VoidVal ELSE Exc(last'.out.e)
            /\ LeftQueue(t)]_vars

\* std::optional wrapped k times around the type T
RECURSIVE Nested(_, _)
Nested(k, T) == IF k = 0 THEN T ELSE <<"optional">> \o Nested(k - 1, T)
\* the return types that are not a std::optional
PayloadTypes == {ty \in ReturnTypes : Head(ty) # "optional"}

\* C22: the type a factory infers from a callable that returns std::optional
\* wrapped k times around a type T that is no std::optional is T, for every such
\* T and every k >= 0 (T itself for k = 0); make_task_with_attempts rejects the
\* callable when that type is void and builds a TaskWithAttempts<T> otherwise,
\* make_task builds a Task<void> or a Task<T>.
C22_FactoryFlattens ==
    factory.built # "none" =>
        /\ \A k \in 0..MaxDepth : \A T \in PayloadTypes :
              factory.fn = Nested(k, T) => factory.type = T
        /\ \E k \in 0..MaxDepth : \E T \in PayloadTypes : factory.fn = Nested(k, T)
        /\ factory.helper = "make_task_with_attempts" =>
              factory.built = IF factory.type = <<"void">> THEN "rejected" ELSE "retry"
        /\ factory.helper = "make_task" =>
              factory.built = IF factory.type = <<"void">> THEN "void" ELSE "plain"
\* make_task_with_attempts was given a callable that returns
\* std::optional<std::optional<int>> and built a TaskWithAttempts<int>
C22_Witness ==
    /\ factory.helper = "make_task_with_attempts"
    /\ factory.fn = <<"optional", "optional", "int">>
    /\ factory.type = <<"int">>
    /\ factory.built = "retry"
====
